---- MODULE Spec2Model ----
(***************************************************************************)
(* Model of mediasite_downloader.py: the batch download supervisor.        *)
(*                                                                         *)
(* Threads of the program:                                                 *)
(*   - the main thread (preflight, target list, submit loop, as_completed  *)
(*     aggregation loop, summary);                                         *)
(*   - the pool's worker threads, each running download_video for one      *)
(*     target at a time;                                                   *)
(*   - per running download, two stream_output threads (stdout, stderr)    *)
(*     and the external yt-dlp child process.                              *)
(* Shared objects: the pool's work queue and futures, the output           *)
(* directory, and the process-wide sys.stdout / sys.stderr streams.        *)
(*                                                                         *)
(* Granularity: one action per statement that touches a shared object;    *)
(* statements that touch only locals are folded into the next such step.   *)
(* A write call that passes a whole line is one step; print() is two       *)
(* steps, the text and then the newline, as it makes two write calls.      *)
(* Output printed while the main thread is the only thread (preflight,     *)
(* reading the target file, the summary) is not tracked on the streams.    *)
(*                                                                         *)
(* Two sequential parts of the program are also followed on their own, on  *)
(* their inputs: read_download_targets line by line (LoaderSpec) and the   *)
(* construction of the argument list in download_video (CommandSpec).      *)
(***************************************************************************)
EXTENDS Integers, Sequences, FiniteSets, TLC

\* ---- bounds of the model ------------------------------------------------
MaxTargets == 2     \* most targets the target file yields
MaxWorkers == 2     \* largest concurrency setting entered
MaxLines == 2       \* most lines a child writes to one of its streams
PipeCap == 1        \* lines a pipe buffers before the child's write blocks
MaxLineLen == 3     \* most characters on a line of the target file
MaxFileLines == 2   \* most lines of the target file

Tasks == 1..MaxTargets
Streams == {"stdout", "stderr"}

VARIABLES
    mpc,              \* position of the main thread
    exit_code,        \* exit code of the supervisor (-1 until it exits)
    yt_dlp,           \* the downloader binary: "ok", "missing", "nonzero", "error"
    target_file,      \* urls.txt: "ok", "missing", "unreadable"
    file_targets,     \* number of valid target lines in urls.txt
    child_lines,      \* most lines a child of this run writes to one stream
    max_concurrent,   \* settings['count']
    download_path,    \* settings['path']: "." or a directory name
    download_targets, \* list returned by read_download_targets
    futures,          \* list of submitted futures (by target index)
    success_count,
    fail_count,
    processed_count,
    future,           \* the future the aggregation loop holds (0: none)
    yielded,          \* futures as_completed has already yielded
    queue,            \* the executor's work queue (FIFO)
    fstate,           \* future state: "none", "pending", "running", "finished"
    fresult,          \* future outcome: "none", "True", "False", "exc"
    tpc,              \* position of the worker inside download_video
    dirExists,        \* output directory is present on disk
    dirCreatable,     \* os.makedirs can create it (no OSError)
    proc,             \* child process: "none", "running", "exited"
    returncode,       \* child's exit code (-1 until it exits)
    written,          \* number of lines the child has written, per stream
    writing,          \* stream the child is inside a write call to ("none": none)
    pipe,             \* lines buffered in each pipe
    dpc,              \* position of each stream_output thread
    fwd,              \* lines forwarded to the supervisor's streams, per task
    console,          \* per supervisor stream: writer of its unterminated line
    spawns,           \* number of Popen calls that created a child, per task
    raised,           \* exception raised inside download_video, per task
    summaries,        \* number of times the summary block was printed
    banners,          \* the k of each "Download Task k of N Completed" printed
    \* read_download_targets, taken on its own:
    file,             \* the lines of the target file, as read by `for line in f`
    rpc,              \* position inside read_download_targets ("idle": not in it)
    line_num,
    targets,          \* list of (output_filename_base, url) pairs
    warnings,         \* line numbers for which a WARNING was printed
    \* the command construction of download_video, taken on its own:
    args,             \* download_video's parameters
    cpc,              \* position inside the construction ("idle": not in it)
    full_output_path_template,
    command           \* the argument list

vars == << mpc, exit_code, yt_dlp, target_file, file_targets, child_lines,
           max_concurrent, download_path, download_targets,
           futures, success_count, fail_count, processed_count, future, yielded,
           queue, fstate, fresult, tpc, dirExists, dirCreatable, proc,
           returncode, written, writing, pipe, dpc, fwd, console, spawns,
           raised, summaries, banners,
           file, rpc, line_num, targets, warnings,
           args, cpc, full_output_path_template, command >>

mainVars == << mpc, exit_code, download_targets, futures, success_count,
               fail_count, processed_count, future, yielded, summaries,
               banners >>
settingVars == << yt_dlp, target_file, file_targets, child_lines,
                  max_concurrent, download_path, dirCreatable >>
poolVars == << queue, fstate, fresult >>
childVars == << proc, returncode, written, writing, pipe >>
drainVars == << dpc, fwd >>
loaderVars == << file, rpc, line_num, targets, warnings >>
commandVars == << args, cpc, full_output_path_template, command >>
unitVars == << loaderVars, commandVars >>
runVars == << mainVars, settingVars, poolVars, tpc, dirExists, childVars,
             drainVars, console, spawns, raised >>

\* ---- the process-wide output streams ------------------------------------
\* A stream is observed through its last, unterminated line: console[s] is
\* the thread whose text stands on that line, << >> when the stream ends
\* with a newline.
MainThread == << "main" >>
WorkerThread(t) == << "task", t >>
DrainThread(t, s) == << "drain", t, s >>

\* file.write(text) of a text that does not end the line: the first of the
\* two write calls print() makes.  The line now ends with w's text.
WriteText(c, w) == w

\* file.write("\n"): the second write call of print().
WriteEnd(c, w) == << >>

\* file.write(line) of a whole line, newline included, in one call.
WriteLine(c, w) == << >>

N == Len(download_targets)

\* ---- initial state: settings entered, nothing run yet --------------------
\* The runs explored: any number of targets whose children print nothing,
\* and single-target runs whose child prints up to MaxLines lines per stream
\* (a child may exit before it has written child_lines lines).  A run with
\* at most one target never uses a second worker, so it is explored with
\* one.  Runs with one target save to the current directory; runs with
\* several targets save to a named directory, which is absent or present at
\* the start and present for every task that starts after its creation.
RunInit ==
    /\ mpc = "preflight"
    /\ exit_code = -1
    /\ yt_dlp \in {"ok", "missing", "nonzero", "error"}
    /\ target_file \in {"ok", "missing", "unreadable"}
    /\ file_targets \in 0..MaxTargets
    /\ target_file # "ok" => file_targets = 0
    /\ child_lines = IF file_targets = 1 THEN MaxLines ELSE 0
    /\ max_concurrent \in 1..MaxWorkers
    /\ file_targets <= 1 => max_concurrent = 1
    /\ download_path \in {".", "out"}
    /\ download_path = "." <=> file_targets <= 1
    /\ dirExists \in BOOLEAN
    /\ dirCreatable \in BOOLEAN
    /\ download_path = "." => dirExists
    /\ dirExists => dirCreatable
    /\ download_targets = << >>
    /\ futures = << >>
    /\ success_count = 0
    /\ fail_count = 0
    /\ processed_count = 0
    /\ future = 0
    /\ yielded = {}
    /\ queue = << >>
    /\ fstate = [t \in Tasks |-> "none"]
    /\ fresult = [t \in Tasks |-> "none"]
    /\ tpc = [t \in Tasks |-> "idle"]
    /\ proc = [t \in Tasks |-> "none"]
    /\ returncode = [t \in Tasks |-> -1]
    /\ written = [t \in Tasks |-> [s \in Streams |-> 0]]
    /\ writing = [t \in Tasks |-> "none"]
    /\ pipe = [t \in Tasks |-> [s \in Streams |-> << >>]]
    /\ dpc = [t \in Tasks |-> [s \in Streams |-> "none"]]
    /\ fwd = [t \in Tasks |-> [s \in Streams |-> << >>]]
    /\ console = [s \in Streams |-> << >>]
    /\ spawns = [t \in Tasks |-> 0]
    /\ raised = [t \in Tasks |-> "none"]
    /\ summaries = 0
    /\ banners = << >>

\* read_download_targets is not being followed line by line.
LoaderIdle ==
    /\ file = << >>
    /\ rpc = "idle"
    /\ line_num = 0
    /\ targets = << >>
    /\ warnings = << >>

\* The command construction is not being followed step by step.
CommandIdle ==
    /\ args = << >>
    /\ cpc = "idle"
    /\ full_output_path_template = << >>
    /\ command = << >>

Init == RunInit /\ LoaderIdle /\ CommandIdle

\* ---- main thread ---------------------------------------------------------
\* Variant of PreflightOk that goes on whatever check_yt_dlp() returned.
PreflightUnchecked ==
    /\ mpc = "preflight"
    /\ mpc' = "read"
    /\ UNCHANGED << exit_code, download_targets, futures, success_count,
                    fail_count, processed_count, future, yielded, summaries, banners,
                    settingVars, unitVars, poolVars, tpc, dirExists, childVars,
                    drainVars, console, spawns, raised >>

\* check_yt_dlp() returned True.
PreflightOk ==
    /\ mpc = "preflight"
    /\ yt_dlp = "ok"
    /\ mpc' = "read"
    /\ UNCHANGED << exit_code, download_targets, futures, success_count,
                    fail_count, processed_count, future, yielded, summaries, banners,
                    settingVars, unitVars, poolVars, tpc, dirExists, childVars,
                    drainVars, console, spawns, raised >>

\* check_yt_dlp() returned False (FileNotFoundError, CalledProcessError or
\* any other exception of the version query): sys.exit(1).
PreflightFail ==
    /\ mpc = "preflight"
    /\ yt_dlp \in {"missing", "nonzero", "error"}
    /\ mpc' = "exit"
    /\ exit_code' = 1
    /\ UNCHANGED << download_targets, futures, success_count,
                    fail_count, processed_count, future, yielded, summaries, banners,
                    settingVars, unitVars, poolVars, tpc, dirExists, childVars,
                    drainVars, console, spawns, raised >>

\* read_download_targets() returned None (file missing or unreadable):
\* sys.exit(1).
ReadTargetsFail ==
    /\ mpc = "read"
    /\ target_file \in {"missing", "unreadable"}
    /\ mpc' = "exit"
    /\ exit_code' = 1
    /\ UNCHANGED << download_targets, futures, success_count,
                    fail_count, processed_count, future, yielded, summaries, banners,
                    settingVars, unitVars, poolVars, tpc, dirExists, childVars,
                    drainVars, console, spawns, raised >>

\* Variant of ReadTargetsEmpty that tests `not download_targets` before the
\* None check, so that a file that could not be read ends the run with 0.
ReadTargetsEmptyOrNone ==
    /\ mpc = "read"
    /\ file_targets = 0
    /\ download_targets' = << >>
    /\ mpc' = "exit"
    /\ exit_code' = 0
    /\ UNCHANGED << futures, success_count,
                    fail_count, processed_count, future, yielded, summaries, banners,
                    settingVars, unitVars, poolVars, tpc, dirExists, childVars,
                    drainVars, console, spawns, raised >>

\* Variant of ReadTargetsEmpty that falls through to the summary block
\* instead of calling sys.exit(0).
ReadTargetsEmptyToSummary ==
    /\ mpc = "read"
    /\ target_file = "ok"
    /\ file_targets = 0
    /\ download_targets' = << >>
    /\ mpc' = "summary"
    /\ UNCHANGED << exit_code, futures, success_count,
                    fail_count, processed_count, future, yielded, summaries, banners,
                    settingVars, unitVars, poolVars, tpc, dirExists, childVars,
                    drainVars, console, spawns, raised >>

\* read_download_targets() returned an empty list: the notice is printed and
\* sys.exit(0) is called; the summary block is not reached.
ReadTargetsEmpty ==
    /\ mpc = "read"
    /\ target_file = "ok"
    /\ file_targets = 0
    /\ download_targets' = << >>
    /\ mpc' = "exit"
    /\ exit_code' = 0
    /\ UNCHANGED << futures, success_count,
                    fail_count, processed_count, future, yielded, summaries, banners,
                    settingVars, unitVars, poolVars, tpc, dirExists, childVars,
                    drainVars, console, spawns, raised >>

\* read_download_targets() returned n >= 1 targets: counters are reset, the
\* executor is created and "Submitting ..." is printed (no worker exists yet).
ReadTargetsOk ==
    /\ mpc = "read"
    /\ target_file = "ok"
    /\ file_targets >= 1
    /\ download_targets' = [i \in 1..file_targets |-> i]
    /\ success_count' = 0
    /\ fail_count' = 0
    /\ futures' = << >>
    /\ mpc' = "submit"
    /\ UNCHANGED << exit_code, processed_count, future, yielded, summaries, banners,
                    settingVars, unitVars, poolVars, tpc, dirExists, childVars,
                    drainVars, console, spawns, raised >>

\* Variant of Submit in which the pool takes the newest work item first.
SubmitNewestFirst ==
    /\ mpc = "submit"
    /\ Len(futures) < N
    /\ LET t == download_targets[Len(futures) + 1] IN
          /\ futures' = Append(futures, t)
          /\ queue' = << t >> \o queue
          /\ fstate' = [fstate EXCEPT ![t] = "pending"]
    /\ UNCHANGED << mpc, exit_code, download_targets, success_count,
                    fail_count, processed_count, future, yielded, summaries, banners,
                    settingVars, unitVars, fresult, tpc, dirExists, childVars,
                    drainVars, console, spawns, raised >>

\* One iteration of the submit loop: executor.submit(download_video, ...)
\* for the next target in list order; the future is appended to futures.
Submit ==
    /\ mpc = "submit"
    /\ Len(futures) < N
    /\ LET t == download_targets[Len(futures) + 1] IN
          /\ futures' = Append(futures, t)
          /\ queue' = Append(queue, t)
          /\ fstate' = [fstate EXCEPT ![t] = "pending"]
    /\ UNCHANGED << mpc, exit_code, download_targets, success_count,
                    fail_count, processed_count, future, yielded, summaries, banners,
                    settingVars, unitVars, fresult, tpc, dirExists, childVars,
                    drainVars, console, spawns, raised >>

\* print("All download tasks submitted. ..."): the text, then the newline.
SubmittedText ==
    /\ mpc = "submit"
    /\ Len(futures) = N
    /\ console' = [console EXCEPT !["stdout"] = WriteText(@, MainThread)]
    /\ mpc' = "submitted_nl"
    /\ UNCHANGED << exit_code, download_targets, futures, success_count,
                    fail_count, processed_count, future, yielded, summaries, banners,
                    settingVars, unitVars, poolVars, tpc, dirExists, childVars,
                    drainVars, spawns, raised >>

SubmittedEnd ==
    /\ mpc = "submitted_nl"
    /\ console' = [console EXCEPT !["stdout"] = WriteEnd(@, MainThread)]
    /\ processed_count' = 0
    /\ mpc' = "as_completed"
    /\ UNCHANGED << exit_code, download_targets, futures, success_count,
                    fail_count, future, yielded, summaries, banners,
                    settingVars, unitVars, poolVars, tpc, dirExists, childVars,
                    drainVars, spawns, raised >>

\* Variant of AggTake that walks the list of futures (`for future in
\* futures`) instead of as_completed(futures): the next future is counted
\* and announced whether it has finished or not.
AggTakeInListOrder ==
    /\ mpc = "as_completed"
    /\ processed_count < Len(futures)
    /\ future' = futures[processed_count + 1]
    /\ yielded' = yielded \cup {futures[processed_count + 1]}
    /\ processed_count' = processed_count + 1
    /\ banners' = Append(banners, processed_count + 1)
    /\ console' = [console EXCEPT !["stdout"] = WriteText(@, MainThread)]
    /\ mpc' = "banner_nl"
    /\ UNCHANGED << exit_code, download_targets, futures, success_count,
                    fail_count, summaries, settingVars, unitVars, poolVars,
                    tpc, dirExists, childVars, drainVars, spawns, raised >>

\* as_completed(futures) yields a finished future that it has not yielded
\* yet; the loop body counts it and prints the text of the
\* "Download Task k of N Completed" banner, k being processed_count.
AggTake ==
    /\ mpc = "as_completed"
    /\ \E f \in Tasks :
          /\ fstate[f] = "finished"
          /\ f \notin yielded
          /\ future' = f
          /\ yielded' = yielded \cup {f}
    /\ processed_count' = processed_count + 1
    /\ banners' = Append(banners, processed_count + 1)
    /\ console' = [console EXCEPT !["stdout"] = WriteText(@, MainThread)]
    /\ mpc' = "banner_nl"
    /\ UNCHANGED << exit_code, download_targets, futures, success_count,
                    fail_count, summaries, settingVars, unitVars, poolVars,
                    tpc, dirExists, childVars, drainVars, spawns, raised >>

\* The newline of the completion banner.
AggBannerEnd ==
    /\ mpc = "banner_nl"
    /\ console' = [console EXCEPT !["stdout"] = WriteEnd(@, MainThread)]
    /\ mpc' = "result"
    /\ UNCHANGED << exit_code, download_targets, futures, success_count,
                    fail_count, processed_count, future, yielded, summaries, banners,
                    settingVars, unitVars, poolVars, tpc, dirExists, childVars,
                    drainVars, spawns, raised >>

\* future.result() returned True.
AggSuccess ==
    /\ mpc = "result"
    /\ fresult[future] = "True"
    /\ success_count' = success_count + 1
    /\ mpc' = "as_completed"
    /\ UNCHANGED << exit_code, download_targets, futures, fail_count,
                    processed_count, future, yielded, summaries, banners, settingVars, unitVars,
                    poolVars, tpc, dirExists, childVars, drainVars, console,
                    spawns, raised >>

\* future.result() returned False.
AggFail ==
    /\ mpc = "result"
    /\ fresult[future] = "False"
    /\ fail_count' = fail_count + 1
    /\ mpc' = "as_completed"
    /\ UNCHANGED << exit_code, download_targets, futures, success_count,
                    processed_count, future, yielded, summaries, banners, settingVars, unitVars,
                    poolVars, tpc, dirExists, childVars, drainVars, console,
                    spawns, raised >>

\* future.result() re-raised the task's exception: the handler prints the
\* text of its message to stderr ...
AggExcText ==
    /\ mpc = "result"
    /\ fresult[future] = "exc"
    /\ console' = [console EXCEPT !["stderr"] = WriteText(@, MainThread)]
    /\ mpc' = "exc_nl"
    /\ UNCHANGED << exit_code, download_targets, futures, success_count,
                    fail_count, processed_count, future, yielded, summaries, banners,
                    settingVars, unitVars, poolVars, tpc, dirExists, childVars,
                    drainVars, spawns, raised >>

\* Variant of AggExcEnd that reports the exception without counting it.
AggExcEndUncounted ==
    /\ mpc = "exc_nl"
    /\ console' = [console EXCEPT !["stderr"] = WriteEnd(@, MainThread)]
    /\ mpc' = "as_completed"
    /\ UNCHANGED << exit_code, download_targets, futures, success_count,
                    fail_count, processed_count, future, yielded, summaries, banners,
                    settingVars, unitVars, poolVars, tpc, dirExists, childVars,
                    drainVars, spawns, raised >>

\* ... then the newline, and counts a failure.
AggExcEnd ==
    /\ mpc = "exc_nl"
    /\ console' = [console EXCEPT !["stderr"] = WriteEnd(@, MainThread)]
    /\ fail_count' = fail_count + 1
    /\ mpc' = "as_completed"
    /\ UNCHANGED << exit_code, download_targets, futures, success_count,
                    processed_count, future, yielded, summaries, banners, settingVars, unitVars,
                    poolVars, tpc, dirExists, childVars, drainVars, spawns, raised >>

\* Variant of ExecutorExit that leaves the loop as soon as no finished
\* future is left to report, without waiting for the tasks still running.
ExecutorExitWithoutWaiting ==
    /\ mpc = "as_completed"
    /\ \A t \in Tasks : fstate[t] = "finished" => t \in yielded
    /\ mpc' = "summary"
    /\ UNCHANGED << exit_code, download_targets, futures, success_count,
                    fail_count, processed_count, future, yielded, summaries, banners,
                    settingVars, unitVars, poolVars, tpc, dirExists, childVars,
                    drainVars, console, spawns, raised >>

\* as_completed is exhausted once every future was yielded; leaving the
\* `with` block calls executor.shutdown(wait=True), which joins the workers.
ExecutorExit ==
    /\ mpc = "as_completed"
    /\ yielded = {futures[i] : i \in 1..Len(futures)}
    /\ \A t \in Tasks : fstate[t] # "running"
    /\ queue = << >>
    /\ mpc' = "summary"
    /\ UNCHANGED << exit_code, download_targets, futures, success_count,
                    fail_count, processed_count, future, yielded, summaries, banners,
                    settingVars, unitVars, poolVars, tpc, dirExists, childVars,
                    drainVars, console, spawns, raised >>

\* Variant of Summary that exits with code 1 when a download failed.
SummaryExitOnFailure ==
    /\ mpc = "summary"
    /\ summaries' = summaries + 1
    /\ mpc' = "exit"
    /\ exit_code' = IF fail_count > 0 THEN 1 ELSE 0
    /\ UNCHANGED << download_targets, futures, success_count, fail_count,
                    processed_count, future, yielded, banners, settingVars, unitVars, poolVars,
                    tpc, dirExists, childVars, drainVars, console, spawns,
                    raised >>

\* The summary block is printed and the script ends: exit code 0.
Summary ==
    /\ mpc = "summary"
    /\ summaries' = summaries + 1
    /\ mpc' = "exit"
    /\ exit_code' = 0
    /\ UNCHANGED << download_targets, futures, success_count, fail_count,
                    processed_count, future, yielded, banners, settingVars, unitVars, poolVars,
                    tpc, dirExists, childVars, drainVars, console, spawns, raised >>

MainNext ==
    \/ PreflightOk
    \/ PreflightFail
    \/ ReadTargetsFail
    \/ ReadTargetsEmpty
    \/ ReadTargetsOk
    \/ Submit
    \/ SubmittedText
    \/ SubmittedEnd
    \/ AggTake
    \/ AggBannerEnd
    \/ AggSuccess
    \/ AggFail
    \/ AggExcText
    \/ AggExcEnd
    \/ ExecutorExit
    \/ Summary

\* ---- the pool: ThreadPoolExecutor(max_workers=max_concurrent) -------------
RunningFutures == {t \in Tasks : fstate[t] = "running"}

\* Variant of WorkerAvailable with an off-by-one worker limit.
WorkerAvailableOffByOne == Cardinality(RunningFutures) <= max_concurrent

\* A worker thread is free (or may still be created) for the next work item.
WorkerAvailable == Cardinality(RunningFutures) < max_concurrent

\* The future of task t is finished with `value`; its worker is free again.
Finish(t, value) ==
    /\ fstate' = [fstate EXCEPT ![t] = "finished"]
    /\ fresult' = [fresult EXCEPT ![t] = value]
    /\ tpc' = [tpc EXCEPT ![t] = "done"]

\* Variant of StartTask in which a failed task cancels the work items that
\* have not started.
StartTaskUnlessSiblingFailed(t) ==
    /\ queue # << >>
    /\ t = Head(queue)
    /\ WorkerAvailable
    /\ \A u \in Tasks : fresult[u] \notin {"False", "exc"}
    /\ queue' = Tail(queue)
    /\ fstate' = [fstate EXCEPT ![t] = "running"]
    /\ tpc' = [tpc EXCEPT ![t] = "banner"]
    /\ UNCHANGED << mainVars, settingVars, unitVars, fresult, dirExists, childVars,
                    drainVars, console, spawns, raised >>

\* A worker takes the oldest work item and calls download_video.
StartTask(t) ==
    /\ queue # << >>
    /\ t = Head(queue)
    /\ WorkerAvailable
    /\ queue' = Tail(queue)
    /\ fstate' = [fstate EXCEPT ![t] = "running"]
    /\ tpc' = [tpc EXCEPT ![t] = "banner"]
    /\ UNCHANGED << mainVars, settingVars, unitVars, fresult, dirExists, childVars,
                    drainVars, console, spawns, raised >>

\* ---- download_video, run by a worker for task t --------------------------
\* print(prefix + "-" * 20): the text ...
TaskBannerText(t) ==
    /\ tpc[t] = "banner"
    /\ console' = [console EXCEPT !["stdout"] = WriteText(@, WorkerThread(t))]
    /\ tpc' = [tpc EXCEPT ![t] = "banner_nl"]
    /\ UNCHANGED << mainVars, settingVars, unitVars, poolVars, dirExists, childVars,
                    drainVars, spawns, raised >>

\* ... and its newline.
TaskBannerEnd(t) ==
    /\ tpc[t] = "banner_nl"
    /\ console' = [console EXCEPT !["stdout"] = WriteEnd(@, WorkerThread(t))]
    /\ tpc' = [tpc EXCEPT ![t] = "attempt"]
    /\ UNCHANGED << mainVars, settingVars, unitVars, poolVars, dirExists, childVars,
                    drainVars, spawns, raised >>

\* sys.stdout.write(prefix + "Attempting download ... {url}\n"); flush.
TaskAttempt(t) ==
    /\ tpc[t] = "attempt"
    /\ console' = [console EXCEPT !["stdout"] = WriteLine(@, WorkerThread(t))]
    /\ tpc' = [tpc EXCEPT ![t] = "chkdir"]
    /\ UNCHANGED << mainVars, settingVars, unitVars, poolVars, dirExists, childVars,
                    drainVars, spawns, raised >>

\* The same write raises (the URL cannot be encoded for the console): this
\* statement is outside the try block, so the exception leaves
\* download_video and the worker stores it in the future.
TaskAttemptRaises(t) ==
    /\ tpc[t] = "attempt"
    /\ Finish(t, "exc")
    /\ raised' = [raised EXCEPT ![t] = "UnicodeEncodeError"]
    /\ UNCHANGED << mainVars, settingVars, unitVars, queue, dirExists, childVars,
                    drainVars, console, spawns >>

\* if output_dir != "." and not os.path.exists(output_dir)
TaskCheckDir(t) ==
    /\ tpc[t] = "chkdir"
    /\ tpc' = [tpc EXCEPT ![t] =
                  IF download_path # "." /\ ~dirExists THEN "mkdir" ELSE "command"]
    /\ UNCHANGED << mainVars, settingVars, unitVars, poolVars, dirExists, childVars,
                    drainVars, console, spawns, raised >>

\* Variant of MakeDirsSucceeds without exist_ok=True: the call raises
\* FileExistsError, an OSError, when the directory exists by now.
MakeDirsSucceedsIfAbsent == ~dirExists /\ dirCreatable

\* os.makedirs(output_dir, exist_ok=True) raises OSError only when the
\* directory cannot be created; a directory that exists by now is accepted.
MakeDirsSucceeds == dirExists \/ dirCreatable

\* os.makedirs succeeded; "Created output directory" is written.
TaskMakeDirs(t) ==
    /\ tpc[t] = "mkdir"
    /\ MakeDirsSucceeds
    /\ dirExists' = TRUE
    /\ console' = [console EXCEPT !["stdout"] = WriteLine(@, WorkerThread(t))]
    /\ tpc' = [tpc EXCEPT ![t] = "command"]
    /\ UNCHANGED << mainVars, settingVars, unitVars, poolVars, childVars, drainVars,
                    spawns, raised >>

\* Variant of TaskMakeDirsFail that reports the error and goes on to the
\* download instead of returning.
TaskMakeDirsFailGoesOn(t) ==
    /\ tpc[t] = "mkdir"
    /\ ~MakeDirsSucceeds
    /\ console' = [console EXCEPT !["stderr"] = WriteLine(@, WorkerThread(t))]
    /\ tpc' = [tpc EXCEPT ![t] = "command"]
    /\ raised' = [raised EXCEPT ![t] = "OSError"]
    /\ UNCHANGED << mainVars, settingVars, unitVars, poolVars, dirExists,
                    childVars, drainVars, spawns >>

\* os.makedirs raised OSError: the error is written to stderr, return False.
TaskMakeDirsFail(t) ==
    /\ tpc[t] = "mkdir"
    /\ ~MakeDirsSucceeds
    /\ console' = [console EXCEPT !["stderr"] = WriteLine(@, WorkerThread(t))]
    /\ Finish(t, "False")
    /\ raised' = [raised EXCEPT ![t] = "OSError"]
    /\ UNCHANGED << mainVars, settingVars, unitVars, queue, dirExists, childVars,
                    drainVars, spawns >>

\* The command is built, the format line (if any) and the "Executing
\* command" line are written, each in one write call, and
\* subprocess.Popen(command, stdout=PIPE, stderr=PIPE, ...) creates the child.
TaskSpawn(t) ==
    /\ tpc[t] = "command"
    /\ console' = [console EXCEPT !["stdout"] = WriteLine(@, WorkerThread(t))]
    /\ proc' = [proc EXCEPT ![t] = "running"]
    /\ spawns' = [spawns EXCEPT ![t] = @ + 1]
    /\ tpc' = [tpc EXCEPT ![t] = "start"]
    /\ UNCHANGED << mainVars, settingVars, unitVars, poolVars, dirExists, returncode,
                    written, writing, pipe, drainVars, raised >>

\* The same, but Popen raises FileNotFoundError (binary missing) or any
\* other exception: the matching handler writes one line to stderr and
\* returns False.
TaskSpawnFails(t) ==
    /\ tpc[t] = "command"
    /\ \E e \in {"FileNotFoundError", "Exception"} :
          raised' = [raised EXCEPT ![t] = e]
    /\ console' = [console EXCEPT !["stdout"] = WriteLine(console["stdout"], WorkerThread(t)),
                                  !["stderr"] = WriteLine(console["stderr"], WorkerThread(t))]
    /\ Finish(t, "False")
    /\ UNCHANGED << mainVars, settingVars, unitVars, queue, dirExists, childVars,
                    drainVars, spawns >>

\* stdout_thread.start(); stderr_thread.start()
TaskStartThreads(t) ==
    /\ tpc[t] = "start"
    /\ dpc' = [dpc EXCEPT ![t] = [s \in Streams |-> "read"]]
    /\ tpc' = [tpc EXCEPT ![t] = "join_out"]
    /\ UNCHANGED << mainVars, settingVars, unitVars, poolVars, dirExists, childVars,
                    fwd, console, spawns, raised >>

\* Variant of Joined in which both joins wait for the stdout thread.
JoinedStdoutOnly(t, s) == dpc[t]["stdout"] = "done"

\* thread.join() returns once the thread's stream_output has ended.
Joined(t, s) == dpc[t][s] = "done"

\* stdout_thread.join()
TaskJoinOut(t) ==
    /\ tpc[t] = "join_out"
    /\ Joined(t, "stdout")
    /\ tpc' = [tpc EXCEPT ![t] = "join_err"]
    /\ UNCHANGED << mainVars, settingVars, unitVars, poolVars, dirExists, childVars,
                    drainVars, console, spawns, raised >>

\* stderr_thread.join()
TaskJoinErr(t) ==
    /\ tpc[t] = "join_err"
    /\ Joined(t, "stderr")
    /\ tpc' = [tpc EXCEPT ![t] = "wait"]
    /\ UNCHANGED << mainVars, settingVars, unitVars, poolVars, dirExists, childVars,
                    drainVars, console, spawns, raised >>

\* return_code = process.wait()
TaskWait(t) ==
    /\ tpc[t] = "wait"
    /\ proc[t] = "exited"
    /\ tpc' = [tpc EXCEPT ![t] = "report"]
    /\ UNCHANGED << mainVars, settingVars, unitVars, poolVars, dirExists, childVars,
                    drainVars, console, spawns, raised >>

\* Variant of ResultOf that ignores the exit code.
ResultOfIgnoringCode(rc) == "True"

\* The result of download_video for the child's exit code.
ResultOf(rc) == IF rc = 0 THEN "True" ELSE "False"

\* Variant of TaskReport that runs the download a second time after a
\* non-zero exit code.
TaskReportRetriesOnce(t) ==
    /\ tpc[t] = "report"
    /\ LET s == IF returncode[t] = 0 THEN "stdout" ELSE "stderr" IN
          console' = [console EXCEPT ![s] = WriteLine(@, WorkerThread(t))]
    /\ IF returncode[t] # 0 /\ spawns[t] < 2
       THEN /\ tpc' = [tpc EXCEPT ![t] = "command"]
            /\ UNCHANGED << fstate, fresult >>
       ELSE Finish(t, ResultOf(returncode[t]))
    /\ UNCHANGED << mainVars, settingVars, unitVars, queue, dirExists,
                    childVars, drainVars, spawns, raised >>

\* if return_code == 0: two lines to stdout, return True;
\* else: two lines to stderr, return False.
TaskReport(t) ==
    /\ tpc[t] = "report"
    /\ LET s == IF returncode[t] = 0 THEN "stdout" ELSE "stderr" IN
          console' = [console EXCEPT ![s] = WriteLine(@, WorkerThread(t))]
    /\ Finish(t, ResultOf(returncode[t]))
    /\ UNCHANGED << mainVars, settingVars, unitVars, queue, dirExists, childVars,
                    drainVars, spawns, raised >>

\* ---- the external yt-dlp process of task t -------------------------------
\* The child calls write for its next line on one of its streams.
ChildBeginWrite(t, s) ==
    /\ proc[t] = "running"
    /\ writing[t] = "none"
    /\ written[t][s] < child_lines
    /\ writing' = [writing EXCEPT ![t] = s]
    /\ UNCHANGED << mainVars, settingVars, unitVars, poolVars, tpc, dirExists, proc,
                    returncode, written, pipe, drainVars, console, spawns,
                    raised >>

\* The write call returns once the pipe has taken the line; it blocks while
\* the pipe is full, and the child does nothing else meanwhile.
ChildWrite(t, s) ==
    /\ proc[t] = "running"
    /\ writing[t] = s
    /\ Len(pipe[t][s]) < PipeCap
    /\ \E blank \in BOOLEAN :
          pipe' = [pipe EXCEPT ![t][s] =
                      Append(@, [n |-> written[t][s] + 1, blank |-> blank])]
    /\ written' = [written EXCEPT ![t][s] = @ + 1]
    /\ writing' = [writing EXCEPT ![t] = "none"]
    /\ UNCHANGED << mainVars, settingVars, unitVars, poolVars, tpc, dirExists, proc,
                    returncode, drainVars, console, spawns, raised >>

\* The child exits with code rc; its ends of both pipes are closed.
ChildExit(t) ==
    /\ proc[t] = "running"
    /\ writing[t] = "none"
    /\ \E rc \in {0, 1} : returncode' = [returncode EXCEPT ![t] = rc]
    /\ proc' = [proc EXCEPT ![t] = "exited"]
    /\ UNCHANGED << mainVars, settingVars, unitVars, poolVars, tpc, dirExists, written,
                    writing, pipe, drainVars, console, spawns, raised >>

\* ---- stream_output(pipe, stream_type), one thread per stream -------------
\* output_stream = sys.stdout if stream_type == 'stdout' else sys.stderr
OutputStream(stream_type) ==
    IF stream_type = "stdout" THEN "stdout" ELSE "stderr"

\* Variant of Forwarded that adds the prefix to every line.
ForwardedAlwaysPrefixed(line, stream_type) ==
    [n |-> line.n, blank |-> line.blank, prefixed |-> TRUE,
     to |-> OutputStream(stream_type)]

\* What stream_output writes for a line, and to which stream: the prefix is
\* added only if line.strip() is not empty.
Forwarded(line, stream_type) ==
    [n |-> line.n, blank |-> line.blank, prefixed |-> ~line.blank,
     to |-> OutputStream(stream_type)]

\* Variant of DrainLine in which the streams are read one after the other:
\* stderr is read only once stdout has reached end-of-stream.
DrainLineStdoutFirst(t, s) ==
    /\ dpc[t][s] = "read"
    /\ s = "stderr" => dpc[t]["stdout"] = "done"
    /\ pipe[t][s] # << >>
    /\ pipe' = [pipe EXCEPT ![t][s] = Tail(@)]
    /\ console' = [console EXCEPT ![OutputStream(s)] =
                                      WriteLine(@, DrainThread(t, s))]
    /\ fwd' = [fwd EXCEPT ![t][s] = Append(@, Forwarded(Head(pipe[t][s]), s))]
    /\ UNCHANGED << mainVars, settingVars, unitVars, poolVars, tpc, dirExists, proc,
                    returncode, written, writing, dpc, spawns, raised >>

\* One iteration of the loop: pipe.readline() returned a line, which is
\* written to the matching stream in one write call and flushed.
DrainLine(t, s) ==
    /\ dpc[t][s] = "read"
    /\ pipe[t][s] # << >>
    /\ pipe' = [pipe EXCEPT ![t][s] = Tail(@)]
    /\ console' = [console EXCEPT ![OutputStream(s)] =
                                      WriteLine(@, DrainThread(t, s))]
    /\ fwd' = [fwd EXCEPT ![t][s] = Append(@, Forwarded(Head(pipe[t][s]), s))]
    /\ UNCHANGED << mainVars, settingVars, unitVars, poolVars, tpc, dirExists, proc,
                    returncode, written, writing, dpc, spawns, raised >>

\* pipe.readline() returned '' (the pipe is empty and the child has closed
\* its end): the loop ends and the finally clause closes the pipe.
DrainEof(t, s) ==
    /\ dpc[t][s] = "read"
    /\ pipe[t][s] = << >>
    /\ proc[t] = "exited"
    /\ dpc' = [dpc EXCEPT ![t][s] = "done"]
    /\ UNCHANGED << mainVars, settingVars, unitVars, poolVars, tpc, dirExists,
                    childVars, fwd, console, spawns, raised >>

\* ---- next-state relation -------------------------------------------------
TaskNext(t) ==
    \/ StartTask(t)
    \/ TaskBannerText(t)
    \/ TaskBannerEnd(t)
    \/ TaskAttempt(t)
    \/ TaskAttemptRaises(t)
    \/ TaskCheckDir(t)
    \/ TaskMakeDirs(t)
    \/ TaskMakeDirsFail(t)
    \/ TaskSpawn(t)
    \/ TaskSpawnFails(t)
    \/ TaskStartThreads(t)
    \/ TaskJoinOut(t)
    \/ TaskJoinErr(t)
    \/ TaskWait(t)
    \/ TaskReport(t)

ChildNext(t) ==
    \/ \E s \in Streams : ChildBeginWrite(t, s)
    \/ \E s \in Streams : ChildWrite(t, s)
    \/ ChildExit(t)

DrainNext(t, s) ==
    \/ DrainLine(t, s)
    \/ DrainEof(t, s)

Next ==
    \/ MainNext
    \/ \E t \in Tasks : TaskNext(t)
    \/ \E t \in Tasks : ChildNext(t)
    \/ \E t \in Tasks : \E s \in Streams : DrainNext(t, s)

Spec == Init /\ [][Next]_vars

\* The run does not stop while a thread can take a step or a child process
\* can go on: the threads are scheduled and the children run until they exit.
FairSpec == Spec /\ WF_vars(Next)

\* ---- read_download_targets(filename), line by line -----------------------
\* Text is a sequence of characters.  The characters of the model: a space,
\* a tab, the comment marker and a letter.
Chars == {" ", "\t", "#", "a"}

\* A line of the file, without its line end (which line.strip() removes).
Lines == UNION {[1..n -> Chars] : n \in 0..MaxLineLen}

Files == UNION {[1..n -> Lines] : n \in 0..MaxFileLines}

\* The characters str.strip() removes.
Whitespace == {" ", "\t"}

RECURSIVE LStrip(_)
LStrip(text) ==
    IF text # << >> /\ Head(text) \in Whitespace THEN LStrip(Tail(text)) ELSE text

RECURSIVE RStrip(_)
RStrip(text) ==
    IF text # << >> /\ text[Len(text)] \in Whitespace
    THEN RStrip(SubSeq(text, 1, Len(text) - 1))
    ELSE text

\* text.strip()
Strip(text) == RStrip(LStrip(text))

\* text.startswith(c) for a single character c
StartsWith(text, c) == text # << >> /\ text[1] = c

\* text.split(' ', 1): the parts before and after the first space character,
\* or the text alone when it holds no space.
Split1(text) ==
    IF \E i \in 1..Len(text) : text[i] = " "
    THEN LET i == CHOOSE k \in 1..Len(text) :
                      /\ text[k] = " "
                      /\ \A j \in 1..(k - 1) : text[j] # " "
         IN  << SubSeq(text, 1, i - 1), SubSeq(text, i + 1, Len(text)) >>
    ELSE << text >>

\* The file was opened: targets = [], line_num = 0.
LoaderStart ==
    /\ file \in Files
    /\ rpc = "loop"
    /\ line_num = 0
    /\ targets = << >>
    /\ warnings = << >>

\* One iteration of `for line in f`.
LoaderLine ==
    /\ rpc = "loop"
    /\ line_num < Len(file)
    /\ line_num' = line_num + 1
    /\ LET line == Strip(file[line_num + 1])
           parts == Split1(line)
       IN  IF line = << >> \/ StartsWith(line, "#")
           THEN UNCHANGED << targets, warnings >>
           ELSE IF Len(parts) = 2
                THEN LET output_filename_base == Strip(parts[1])
                         url == Strip(parts[2])
                     IN  IF output_filename_base # << >> /\ url # << >>
                         THEN /\ targets' = Append(targets,
                                                   << output_filename_base, url >>)
                              /\ UNCHANGED warnings
                         ELSE /\ warnings' = Append(warnings, line_num + 1)
                              /\ UNCHANGED targets
                ELSE /\ warnings' = Append(warnings, line_num + 1)
                     /\ UNCHANGED targets
    /\ UNCHANGED << file, rpc, runVars, commandVars >>

\* The file is exhausted: "Found n valid download target(s)", return targets.
LoaderReturn ==
    /\ rpc = "loop"
    /\ line_num = Len(file)
    /\ rpc' = "returned"
    /\ UNCHANGED << file, line_num, targets, warnings, runVars, commandVars >>

\* The main program, idle, for the functions followed on their own.
RunIdle ==
    /\ RunInit
    /\ yt_dlp = "ok"
    /\ target_file = "ok"
    /\ file_targets = 0
    /\ dirExists

LoaderNext == LoaderLine \/ LoaderReturn

LoaderInit == RunIdle /\ LoaderStart /\ CommandIdle

LoaderSpec == LoaderInit /\ [][LoaderNext]_vars

\* ---- download_video: construction of the argument list -------------------
\* An argument is a sequence of pieces of text; a path is written piece by
\* piece, "/" being the separator, every other argument is one piece.
Arg(text) == << text >>

\* The values of download_video's parameters that are followed: a relative
\* and an absolute name, a directory with and without a trailing separator.
Names == { << "name" >>, << "/", "name" >> }
Urls == { "https://host/a", "https://host/b" }
Dirs == { << "." >>, << "out" >>, << "out", "/" >> }
Browsers == { "firefox", "chrome" }
Types == { "both", "video", "audio" }

\* os.path.join(a, b): b alone when b is absolute; no second separator after
\* an a that ends with one.
PathJoin(a, b) ==
    IF b # << >> /\ Head(b) = "/" THEN b
    ELSE IF a = << >> \/ a[Len(a)] = "/" THEN a \o b
    ELSE a \o << "/" >> \o b

\* Variant of FormatFlags in which every type but 'both' takes the video
\* branch.
FormatFlagsVideoUnlessBoth(download_type) ==
    IF download_type # "both"
    THEN << Arg("-f"),
            Arg("bestvideo[ext=mp4]+bestaudio[ext=m4a]/best[ext=mp4]/best") >>
    ELSE << >>

\* The arguments command.extend() adds for the download type.
FormatFlags(download_type) ==
    IF download_type = "video"
    THEN << Arg("-f"),
            Arg("bestvideo[ext=mp4]+bestaudio[ext=m4a]/best[ext=mp4]/best") >>
    ELSE IF download_type = "audio"
    THEN << Arg("-f"), Arg("bestaudio/best"), Arg("-x"),
            Arg("--audio-format"), Arg("mp3") >>
    ELSE << >>

\* download_video was called with these parameters.
CommandStart ==
    /\ args \in [url : Urls, output_filename_base : Names, output_dir : Dirs,
                  cookie_browser : Browsers, download_type : Types]
    /\ cpc = "template"
    /\ full_output_path_template = << >>
    /\ command = << >>

\* output_template = f"{output_filename_base}.%(ext)s";
\* full_output_path_template = os.path.join(output_dir, output_template)
CommandTemplate ==
    /\ cpc = "template"
    /\ LET output_template == args.output_filename_base \o << ".%(ext)s" >>
       IN  full_output_path_template' = PathJoin(args.output_dir, output_template)
    /\ cpc' = "base"
    /\ UNCHANGED << args, command, runVars, loaderVars >>

\* command = ['yt-dlp', '--no-check-certificates', '--cookies-from-browser',
\*            cookie_browser, '-o', full_output_path_template]
CommandBase ==
    /\ cpc = "base"
    /\ command' = << Arg("yt-dlp"), Arg("--no-check-certificates"),
                     Arg("--cookies-from-browser"), Arg(args.cookie_browser),
                     Arg("-o"), full_output_path_template >>
    /\ cpc' = "format"
    /\ UNCHANGED << args, full_output_path_template, runVars, loaderVars >>

\* if download_type == 'video': command.extend([...])
\* elif download_type == 'audio': command.extend([...])
CommandFormat ==
    /\ cpc = "format"
    /\ command' = command \o FormatFlags(args.download_type)
    /\ cpc' = "url"
    /\ UNCHANGED << args, full_output_path_template, runVars, loaderVars >>

\* command.append(url)
CommandUrl ==
    /\ cpc = "url"
    /\ command' = Append(command, Arg(args.url))
    /\ cpc' = "built"
    /\ UNCHANGED << args, full_output_path_template, runVars, loaderVars >>

CommandNext == CommandTemplate \/ CommandBase \/ CommandFormat \/ CommandUrl

CommandInit == RunIdle /\ LoaderIdle /\ CommandStart

CommandSpec == CommandInit /\ [][CommandNext]_vars

\* ==== properties ==========================================================
TargetSet == {download_targets[i] : i \in 1..N}

\* Task t has started executing download_video and has not returned yet.
Executing(t) == tpc[t] \notin {"idle", "done"}

\* The main thread has exited the supervisor.
Exited == mpc = "exit"

\* Nothing was ever handed to the pool and no child was ever created.
NothingScheduled ==
    /\ futures = << >>
    /\ queue = << >>
    /\ \A t \in Tasks : fstate[t] = "none" /\ tpc[t] = "idle" /\ spawns[t] = 0

\* C1: in every reachable state the number of tasks that have started
\* executing download_video and have not yet returned is at most the
\* concurrency limit.
C1_AtMostCExecuting ==
    Cardinality({t \in Tasks : Executing(t)}) <= max_concurrent

\* C1 witness: the pool is saturated while another submitted task waits.
C1_Witness ==
    /\ Cardinality({t \in Tasks : Executing(t)}) = max_concurrent
    /\ queue # << >>

\* C2: when the summary is emitted, success_count + fail_count is the number
\* of submitted targets; each task is counted once, a True result as a
\* success, a False result or a raised exception as a failure.
C2_CountsSumToN ==
    summaries >= 1 =>
        /\ Len(futures) = N
        /\ success_count + fail_count = N
        /\ success_count = Cardinality({t \in TargetSet : fresult[t] = "True"})
        /\ fail_count = Cardinality({t \in TargetSet : fresult[t] \in {"False", "exc"}})

\* C2 witness: the summary was emitted after a run in which one task
\* succeeded and another raised an exception.
C2_Witness ==
    /\ summaries >= 1
    /\ \E t \in TargetSet : fresult[t] = "exc"
    /\ \E t \in TargetSet : fresult[t] = "True"

\* C3: once the submit loop is entered, every target of the list is
\* eventually submitted, started and finished, whatever the outcomes of the
\* other tasks (children that were spawned eventually exit).
C3_AllTasksRunToCompletion ==
    (mpc = "submit") ~>
        (\A t \in TargetSet : fstate[t] = "finished" /\ tpc[t] = "done")

\* C3 witness: the first task failed and a later task still ran and succeeded.
C3_Witness ==
    /\ N >= 2
    /\ fresult[download_targets[1]] \in {"False", "exc"}
    /\ fresult[download_targets[2]] = "True"
    /\ spawns[download_targets[2]] = 1

\* C4: a finished task is a success exactly if its process was spawned and
\* exited with code 0; a non-zero exit and any exception raised while
\* spawning give the result False, never an escaping exception, and never
\* end the run with a failure exit code.
C4_SuccessIffExitZero ==
    \A t \in Tasks :
        fstate[t] = "finished" =>
            /\ fresult[t] = "True" <=>
                  (spawns[t] = 1 /\ proc[t] = "exited" /\ returncode[t] = 0)
            /\ (spawns[t] = 1 /\ returncode[t] # 0) => fresult[t] = "False"
            /\ raised[t] \in {"FileNotFoundError", "Exception"} =>
                  (fresult[t] = "False" /\ spawns[t] = 0)
            /\ exit_code # 1

\* C4 witness: one task ended with a non-zero exit code and another with a
\* spawn error, and both are finished.
C4_Witness ==
    /\ \E t \in Tasks :
          fstate[t] = "finished" /\ spawns[t] = 1 /\ returncode[t] = 1
    /\ \E t \in Tasks :
          fstate[t] = "finished" /\ raised[t] = "FileNotFoundError"

\* C5: if the preflight check fails, nothing is ever submitted or spawned,
\* and the run exits with code 1.
C5_PreflightGate ==
    yt_dlp # "ok" =>
        /\ NothingScheduled
        /\ mpc \in {"preflight", "exit"}
        /\ Exited => exit_code = 1

\* C5 witness: the run has exited after a version query that exited non-zero.
C5_Witness == yt_dlp = "nonzero" /\ Exited /\ exit_code = 1

\* C6: if the target file is missing or unreadable, nothing is ever
\* submitted or spawned, and the run exits with code 1.
C6_MissingFileGate ==
    target_file # "ok" =>
        /\ NothingScheduled
        /\ Exited => exit_code = 1

\* C6 witness: preflight passed, the file was unreadable, the run has exited.
C6_Witness ==
    yt_dlp = "ok" /\ target_file = "unreadable" /\ Exited /\ exit_code = 1

\* The run read a present target file that holds no valid target line.
EmptyListRun == yt_dlp = "ok" /\ target_file = "ok" /\ file_targets = 0

\* C7 as claimed: with a present target file without valid lines the run
\* exits with code 0, schedules nothing, and emits the summary (0 and 0).
C7_Claimed ==
    (EmptyListRun /\ Exited) =>
        /\ exit_code = 0
        /\ NothingScheduled
        /\ summaries = 1
        /\ success_count = 0
        /\ fail_count = 0

\* C7 as amended: with a present target file without valid lines the run
\* exits with code 0 and schedules nothing; it ends at the "No valid
\* download targets" notice and the summary block is never emitted.
C7_EmptyListExitsZero ==
    EmptyListRun =>
        /\ NothingScheduled
        /\ summaries = 0
        /\ mpc \in {"preflight", "read", "exit"}
        /\ Exited => exit_code = 0

\* C7 witness: such a run has exited.
C7_Witness == EmptyListRun /\ Exited /\ exit_code = 0

\* C8: the supervisor's exit code is 0 exactly on the runs whose preflight
\* succeeded and whose target file was read, however many tasks failed or
\* raised; otherwise it is 1.
C8_ExitCode ==
    Exited =>
        /\ exit_code \in {0, 1}
        /\ exit_code = 0 <=> (yt_dlp = "ok" /\ target_file = "ok")

\* C8 witness: a run in which every task failed, one of them by raising,
\* has exited with code 0.
C8_Witness ==
    /\ Exited
    /\ exit_code = 0
    /\ N >= 2
    /\ fail_count = N
    /\ \E t \in TargetSet : fresult[t] = "exc"
    /\ \E t \in TargetSet : fresult[t] = "False"

\* The position of thread w (the main thread or a worker) in its code.
PcOf(w) == IF w = MainThread THEN mpc ELSE tpc[w[2]]

\* The same position after the step.
PcAfter(w) == IF w = MainThread THEN mpc' ELSE tpc'[w[2]]

\* C9 as claimed: with two or more tasks running in parallel, every line
\* written to stdout or stderr, its newline included, is contiguous in the
\* stream: no line is split by a write of another task or thread.  As a
\* property of steps: while a thread's text stands unterminated on a stream,
\* the only step that writes to the stream is that thread's next write.
C9_LineAtomicity ==
    [][ (max_concurrent >= 2 /\ N >= 2) =>
           \A s \in Streams :
               (console[s] # << >> /\ console'[s] # console[s])
                   => PcAfter(console[s]) # PcOf(console[s]) ]_vars

\* The stream_output threads of task t have both ended and every line the
\* child wrote has been forwarded.
Drained(t) ==
    \A s \in Streams :
        /\ dpc[t][s] = "done"
        /\ pipe[t][s] = << >>
        /\ Len(fwd[t][s]) = written[t][s]

\* C10: whenever a task is at or past process.wait(), and whenever it has
\* produced its result after spawning, both drain loops have reached
\* end-of-stream and have been joined, and every line the child wrote has
\* been forwarded.
C10_DrainedBeforeWait ==
    \A t \in Tasks :
        (tpc[t] \in {"wait", "report"} \/ (tpc[t] = "done" /\ spawns[t] = 1))
            => Drained(t)

\* C10 witness: a task has its result after the child wrote a line to each
\* stream.
C10_Witness ==
    \E t \in Tasks :
        /\ tpc[t] = "done"
        /\ fresult[t] \in {"True", "False"}
        /\ \A s \in Streams : written[t][s] >= 1 /\ Len(fwd[t][s]) >= 1

\* No child of a spawned task is left: each has written its lines and exited,
\* every line was read from the pipes, and the task has returned its result.
ChildrenDone ==
    \A t \in Tasks :
        spawns[t] >= 1 =>
            /\ proc[t] = "exited"
            /\ writing[t] = "none"
            /\ \A s \in Streams : pipe[t][s] = << >> /\ dpc[t][s] = "done"
            /\ fstate[t] = "finished"

\* C11: a download task never deadlocks on full pipes.  With pipes of
\* bounded capacity and a child that writes lines to its two streams in any
\* order and then exits: once a child is spawned, every write the child is
\* blocked in eventually returns, every line standing in a pipe is eventually
\* read by its drain loop, the child exits and the task returns its result.
C11_NoPipeDeadlock ==
    (\E t \in Tasks : tpc[t] = "start") ~> ChildrenDone

\* C11 witness: the child is blocked in a write to its full stderr pipe
\* while the stdout drain loop is still waiting for input and the worker is
\* waiting in stdout_thread.join().
C11_Witness ==
    \E t \in Tasks :
        /\ writing[t] = "stderr"
        /\ Len(pipe[t]["stderr"]) = PipeCap
        /\ pipe[t]["stdout"] = << >>
        /\ dpc[t]["stdout"] = "read"
        /\ tpc[t] = "join_out"

\* The first whitespace-separated token of a text.
RECURSIVE FirstToken(_)
FirstToken(text) ==
    IF text = << >> \/ Head(text) \in Whitespace
    THEN << >>
    ELSE << Head(text) >> \o FirstToken(Tail(text))

\* What follows the first token, trimmed.
Remainder(text) == Strip(SubSeq(text, Len(FirstToken(text)) + 1, Len(text)))

\* A blank line or a comment line.
IsSkipped(raw) == Strip(raw) = << >> \/ StartsWith(Strip(raw), "#")

\* A line with a non-empty first token and a non-empty remainder.
IsTargetLine(raw) ==
    /\ ~IsSkipped(raw)
    /\ FirstToken(Strip(raw)) # << >>
    /\ Remainder(Strip(raw)) # << >>

\* The (name, url) pairs of the target lines among the first n lines, in
\* file order.
RECURSIVE TargetLines(_, _)
TargetLines(f, n) ==
    IF n = 0 THEN << >>
    ELSE IF IsTargetLine(f[n])
         THEN Append(TargetLines(f, n - 1),
                     << FirstToken(Strip(f[n])), Remainder(Strip(f[n])) >>)
         ELSE TargetLines(f, n - 1)

\* The numbers of the lines among the first n that are neither skipped nor
\* target lines, in file order.
RECURSIVE DroppedLines(_, _)
DroppedLines(f, n) ==
    IF n = 0 THEN << >>
    ELSE IF ~IsSkipped(f[n]) /\ ~IsTargetLine(f[n])
         THEN Append(DroppedLines(f, n - 1), n)
         ELSE DroppedLines(f, n - 1)

\* C12 as claimed: for every readable file, read_download_targets returns, in
\* file order, exactly the lines with a non-empty first whitespace-separated
\* token and a non-empty remainder, as trimmed (name, url) pairs; blank and
\* comment lines are skipped, and every other line is dropped with a warning.
C12_ReturnsTargetLines ==
    rpc = "returned" =>
        /\ targets = TargetLines(file, Len(file))
        /\ warnings = DroppedLines(file, Len(file))

\* The format flags of each media type, as the claim lists them.
ClaimedFlags(type) ==
    CASE type = "both" -> << >>
      [] type = "video" ->
            << Arg("-f"),
               Arg("bestvideo[ext=mp4]+bestaudio[ext=m4a]/best[ext=mp4]/best") >>
      [] type = "audio" ->
            << Arg("-f"), Arg("bestaudio/best"), Arg("-x"),
               Arg("--audio-format"), Arg("mp3") >>

\* <outputDir>/<name>.%(ext)s
ClaimedTemplate ==
    args.output_dir \o << "/" >> \o args.output_filename_base \o << ".%(ext)s" >>

\* The output template as the code builds it: <outputDir>/<name>.%(ext)s for
\* a relative name, without a second separator after a directory that ends
\* with one; an absolute name stands alone.
BuiltTemplate ==
    IF Head(args.output_filename_base) = "/"
    THEN args.output_filename_base \o << ".%(ext)s" >>
    ELSE IF args.output_dir[Len(args.output_dir)] = "/"
    THEN args.output_dir \o args.output_filename_base \o << ".%(ext)s" >>
    ELSE ClaimedTemplate

\* C13 as claimed: the argument list is, in this order, the binary,
\* --no-check-certificates, --cookies-from-browser <browser>, the format
\* flags of the media type, -o <outputDir>/<name>.%(ext)s, and the URL.
C13_Claimed ==
    cpc = "built" =>
        command = << Arg("yt-dlp"), Arg("--no-check-certificates"),
                     Arg("--cookies-from-browser"), Arg(args.cookie_browser) >>
                  \o ClaimedFlags(args.download_type)
                  \o << Arg("-o"), ClaimedTemplate >>
                  \o << Arg(args.url) >>

\* C13 as amended: the argument list is, in this order, the binary,
\* --no-check-certificates, --cookies-from-browser <browser>, -o and the
\* output template, the format flags of the media type (none for 'both'),
\* and the URL as the last argument; the output template is
\* <outputDir>/<name>.%(ext)s joined as os.path.join joins them.
C13_ArgumentList ==
    cpc = "built" =>
        /\ command = << Arg("yt-dlp"), Arg("--no-check-certificates"),
                        Arg("--cookies-from-browser"), Arg(args.cookie_browser),
                        Arg("-o"), BuiltTemplate >>
                     \o ClaimedFlags(args.download_type)
                     \o << Arg(args.url) >>
        /\ command[Len(command)] = Arg(args.url)

\* C13 witness: the list was built for an audio download to a named
\* directory.
C13_Witness ==
    /\ cpc = "built"
    /\ args.download_type = "audio"
    /\ args.output_dir = << "out" >>
    /\ args.output_filename_base = << "name" >>
    /\ Len(command) = 12

MkdirFailed == {t \in Tasks : raised[t] = "OSError"}

\* C16: a task whose directory creation fails returns a failure result
\* without spawning the downloader; in the final tally it is counted once,
\* as a failure; the other tasks have all run to completion by then.
C16_MkdirFailure ==
    /\ \A t \in MkdirFailed :
          /\ tpc[t] = "done"
          /\ fstate[t] = "finished"
          /\ fresult[t] = "False"
          /\ spawns[t] = 0
          /\ proc[t] = "none"
    /\ (summaries >= 1 /\ MkdirFailed # {}) =>
          /\ MkdirFailed \subseteq yielded
          /\ \A t \in TargetSet : fstate[t] = "finished" /\ t \in yielded
          /\ fail_count =
                Cardinality({t \in TargetSet : fresult[t] \in {"False", "exc"}})
          /\ fail_count >= Cardinality(MkdirFailed)
          /\ success_count + fail_count = N

\* C16 witness: the summary was emitted after a run of two tasks in which
\* the directory creation of the first failed and the second task finished
\* as well.
C16_Witness ==
    /\ summaries = 1
    /\ N >= 2
    /\ download_targets[1] \in MkdirFailed
    /\ fstate[download_targets[2]] = "finished"
    /\ fail_count >= 1

\* C17: creating the output directory from several tasks at once needs no
\* lock.  No task's creation fails once the directory exists (so none fails
\* because another task created it first), no creation fails at all where
\* the directory can be created, and a task that saw the directory absent
\* and has returned without an error from Popen has spawned its process.
C17_ConcurrentMkdirSafe ==
    \A t \in Tasks :
        /\ raised[t] = "OSError" => ~dirExists /\ ~dirCreatable
        /\ (dirExists /\ tpc[t] = "done" /\ raised[t] = "none") => spawns[t] = 1

\* C17 witness: two tasks ran in parallel and both saw the directory absent;
\* one has created it and spawned its process, the other is about to call
\* os.makedirs on the directory that exists by now.
C17_Witness ==
    \E t \in Tasks : \E u \in Tasks :
        /\ t # u
        /\ download_path # "."
        /\ dirExists
        /\ tpc[t] = "mkdir"
        /\ spawns[u] = 1
        /\ proc[u] = "running"

\* C18: the summary is emitted exactly once in a run with a non-empty
\* target list, and only after every one of the N tasks has finished and has
\* been counted by the aggregator; no task is running and no child process
\* is alive when it is emitted.
C18_SummaryOnceAfterAll ==
    /\ summaries <= 1
    /\ (Exited /\ N >= 1) => summaries = 1
    /\ (mpc = "summary" \/ summaries >= 1) =>
          /\ N >= 1
          /\ processed_count = N
          /\ success_count + fail_count = N
          /\ queue = << >>
          /\ \A t \in TargetSet :
                /\ fstate[t] = "finished"
                /\ tpc[t] = "done"
                /\ t \in yielded
          /\ \A t \in Tasks : proc[t] # "running"

\* C18 witness: the summary was emitted after a run of two tasks whose
\* child processes were both spawned and have exited.
C18_Witness ==
    /\ summaries = 1
    /\ N >= 2
    /\ \A t \in TargetSet : spawns[t] = 1 /\ proc[t] = "exited"

\* C19: each target causes at most one spawn of the downloader over the
\* whole run.  A target is submitted at most once and never again after it
\* has finished, whatever its result; no process is spawned for anything but
\* a submitted target, so at most N processes are spawned; and when the run
\* ends every target has exactly one future, which holds its one result.
C19_AtMostOneSpawn ==
    /\ \A t \in Tasks :
          /\ spawns[t] <= 1
          /\ spawns[t] = 1 => t \in TargetSet /\ fstate[t] \in {"running", "finished"}
          /\ spawns[t] = 0 <=> proc[t] = "none"
          /\ fstate[t] = "finished" => \A i \in 1..Len(queue) : queue[i] # t
    /\ Cardinality({t \in Tasks : spawns[t] >= 1}) <= N
    /\ Len(futures) <= N
    /\ \A i \in 1..Len(futures) : \A j \in 1..Len(futures) :
          i # j => futures[i] # futures[j]
    /\ \A i \in 1..Len(queue) : \A j \in 1..Len(queue) :
          i # j => queue[i] # queue[j]
    /\ summaries >= 1 =>
          /\ Len(futures) = N
          /\ \A t \in TargetSet : fresult[t] \in {"True", "False", "exc"}

\* C19 witness: the run has ended with a task that failed with a non-zero
\* exit code and a task that failed to spawn; the first was spawned once,
\* the second never.
C19_Witness ==
    /\ summaries = 1
    /\ \E t \in TargetSet :
          fresult[t] = "False" /\ returncode[t] = 1 /\ spawns[t] = 1
    /\ \E t \in TargetSet :
          fresult[t] = "False" /\ raised[t] = "Exception" /\ spawns[t] = 0

\* The counters of the aggregation loop and the banners printed so far.
Counters == << processed_count, success_count, fail_count, banners >>

\* C20, in every state: processed_count is at most the number of finished
\* tasks; success_count + fail_count is processed_count, or one less while
\* the loop body has counted a future and not yet its result; the banners
\* printed so far carry k = 1, 2, ..., processed_count, in this order, each
\* once, and never more than N.
C20_CountersInStep ==
    /\ processed_count <= Cardinality({t \in Tasks : fstate[t] = "finished"})
    /\ processed_count = Cardinality(yielded)
    /\ success_count + fail_count =
          IF mpc \in {"banner_nl", "result", "exc_nl"}
          THEN processed_count - 1
          ELSE processed_count
    /\ Len(banners) = processed_count
    /\ \A k \in 1..Len(banners) : banners[k] = k
    /\ processed_count <= N
    /\ summaries >= 1 => Len(banners) = N

\* C20: the invariant above, and the counters are written by the main
\* thread only: a step that changes a counter is a step of the main thread
\* inside the aggregation loop, which no worker, drain thread or child takes
\* part in, and it adds exactly one to one counter.
C20_AggregationCounters ==
    /\ []C20_CountersInStep
    /\ [][ Counters' # Counters =>
              /\ mpc \in {"as_completed", "result", "exc_nl"}
              /\ mpc' # mpc
              /\ tpc' = tpc /\ dpc' = dpc /\ proc' = proc /\ fstate' = fstate
              /\ processed_count' + success_count' + fail_count'
                    = processed_count + success_count + fail_count + 1
              /\ processed_count' >= processed_count
              /\ success_count' >= success_count
              /\ fail_count' >= fail_count ]_vars

\* C20 witness: the second banner has been printed and the result of its
\* future is not counted yet.
C20_Witness ==
    /\ mpc = "result"
    /\ processed_count = 2
    /\ banners = << 1, 2 >>
    /\ success_count + fail_count = 1

====
